---- MODULE Spec2Model ----
(***************************************************************************)
(* prompt-manager: the prompt store (core/repository.py), the service      *)
(* layer above it (core/service.py) and the template detection it calls    *)
(* (core/templates.py).                                                    *)
(*                                                                         *)
(* Encoding of Python values.  A str is a sequence of tokens; None and ""  *)
(* are both the empty sequence (every test the code makes on an optional   *)
(* str is a truthiness test, or is made on a field whose schema rejects    *)
(* the empty string).  A slug is the sequence of its hyphen-separated      *)
(* parts, so "a-1" is <<"a", "1">>.  A pydantic model is the record of its *)
(* field values plus `set`, the names of the fields given explicitly       *)
(* (model_fields_set).                                                     *)
(***************************************************************************)
EXTENDS Integers, Sequences, FiniteSets, TLC

VARIABLES
    prompts,    \* table prompts: a set of rows
    versions,   \* table prompt_versions: rows in insertion order
    nextId,     \* the next fresh primary key (uuid4 never repeats)
    writes,     \* transactions committed so far
    call,       \* the operation called last
    ret,        \* what it returned
    sess,       \* the requests in flight, one AsyncSession each
    engine      \* the TemplateEngine call made last: its content, its result

db == <<prompts, versions, nextId, writes>>

vars == <<db, call, ret, sess, engine>>

-----------------------------------------------------------------------------
(* Bounds of the model *)

MaxWrites == 3      \* transactions committed in one run
MaxConcWrites == 4  \* the same, when requests run concurrently

-----------------------------------------------------------------------------
(* Values *)

NULL == <<>>

Contents == { <<"Hi">>, <<"Yo">> }
Titles == { <<"A">>, <<"A", " ", "1">> }
ExplicitSlugs == { NULL, <<"a">> }
ChangeNotes == { NULL, <<"n1">> }

Digits == <<"1", "2", "3", "4", "5", "6", "7", "8", "9">>

\* f"{counter}" and f"{version}"
ToStr(n) == Digits[n]

-----------------------------------------------------------------------------
(* Pydantic models: PromptCreate and PromptUpdate *)

\* All fields at their defaults, none given explicitly.
EmptyData ==
    [ slug |-> NULL, title |-> NULL, content |-> NULL, is_template |-> FALSE,
      template_vars |-> {}, success_notes |-> NULL, failure_notes |-> NULL,
      change_note |-> NULL, set |-> {} ]

\* PromptCreate(slug=.., title=.., content=.., is_template=..)
PromptCreate(slug, title, content, is_template) ==
    [ EmptyData EXCEPT !.slug = slug, !.title = title, !.content = content,
                       !.is_template = is_template,
                       !.set = {"title", "content"}
                               \cup (IF slug # NULL THEN {"slug"} ELSE {})
                               \cup (IF is_template THEN {"is_template"} ELSE {}) ]

\* model_dump(exclude_unset=True, exclude={"change_note"}): the keys of update_data
UpdateKeys(data) == data.set \ {"change_note"}

-----------------------------------------------------------------------------
(* core/templates.py, on tokens *)

LineBreak == "\n"

NoBreakBetween(content, i, j) ==
    \A k \in (i + 1)..(j - 1) : content[k] # LineBreak

\* re.search(r"\{\{.*?\}\}|\{%.*?%\}", content): `.` does not match a line break
IsTemplate(content) ==
    \E i, j \in 1..Len(content) :
        /\ i < j
        /\ \/ content[i] = "{{" /\ content[j] = "}}"
           \/ content[i] = "{%" /\ content[j] = "%}"
        /\ NoBreakBetween(content, i, j)

\* \w+
IsWord(t) == t \notin {"{{", "}}", "{%", "%}", "{", "}", "|", LineBreak, " ", "!"}

Builtins == {"loop", "true", "false", "none", "True", "False", "None"}

\* {{ name }} or {{ name | filter }}
VarPattern(content) ==
    { content[i + 1] : i \in { i \in 1..(Len(content) - 2) :
        /\ content[i] = "{{"
        /\ IsWord(content[i + 1])
        /\ \/ content[i + 2] = "}}"
           \/ /\ content[i + 2] = "|"
              /\ \E j \in (i + 3)..Len(content) :
                    content[j] = "}}" /\ NoBreakBetween(content, i + 2, j) } }

\* {% for item in items %}
ForPattern(content) ==
    { content[i + 4] : i \in { i \in 1..(Len(content) - 5) :
        /\ content[i] = "{%"
        /\ content[i + 1] = "for"
        /\ IsWord(content[i + 2])
        /\ content[i + 3] = "in"
        /\ IsWord(content[i + 4])
        /\ content[i + 5] = "%}" } }

\* {% if name ...
IfPattern(content) ==
    { content[i + 2] : i \in { i \in 1..(Len(content) - 3) :
        /\ content[i] = "{%"
        /\ content[i + 1] = "if"
        /\ IsWord(content[i + 2]) } }

\* The names extract_variables returns (it returns them sorted).
ExtractVariables(content) ==
    (VarPattern(content) \cup ForPattern(content) \cup IfPattern(content)) \ Builtins

Delimiters == {"{{", "}}", "{%", "%}"}

Closed(content, open, close) ==
    \A i \in 1..Len(content) :
        content[i] = open
        => \E j \in (i + 1)..Len(content) :
              /\ content[j] = close
              /\ \A k \in (i + 1)..(j - 1) : content[k] \notin Delimiters

\* what stands between a {{ and its }}, line breaks aside
Expression(content, i) ==
    LET j == CHOOSE j \in (i + 1)..Len(content) :
                /\ content[j] = "}}"
                /\ \A k \in (i + 1)..(j - 1) : content[k] # "}}"
    IN  SelectSeq(SubSeq(content, i + 1, j - 1), LAMBDA t : t # LineBreak)

\* self.env.from_string(content) does not raise TemplateSyntaxError: every
\* {{ and {% is closed, {{ }} holds a name or a name with a filter, and a for
\* or if block has its end tag
SyntaxOk(content) ==
    /\ Closed(content, "{{", "}}")
    /\ \A i \in 1..Len(content) :
          content[i] = "{{"
          => LET e == Expression(content, i)
             IN  /\ Len(e) \in {1, 3}
                 /\ IsWord(e[1])
                 /\ Len(e) = 3 => e[2] = "|" /\ IsWord(e[3])
    /\ Closed(content, "{%", "%}")
    /\ \A i \in 1..(Len(content) - 1) :
          ( content[i] = "{%" /\ content[i + 1] \in {"for", "if"} )
          => \E j \in (i + 2)..(Len(content) - 1) :
                /\ content[j] = "{%"
                /\ content[j + 1] = (IF content[i + 1] = "for" THEN "endfor" ELSE "endif")

\* the names of a mapping, kept as a set of <<name, value>>
Keys(variables) == { kv[1] : kv \in variables }

Value(variables, name) == (CHOOSE kv \in variables : kv[1] = name)[2]

\* the names a content of text and {{ name }} markers interpolates
Interpolated(content) ==
    { content[i + 1] : i \in { i \in 1..(Len(content) - 2) : content[i] = "{{" } }

\* template.render(**variables) of such a content, every name present
RECURSIVE Substitute(_, _)
Substitute(content, variables) ==
    IF content = << >> THEN << >>
    ELSE IF Head(content) = "{{"
         THEN <<Value(variables, content[2])>>
              \o Substitute(SubSeq(content, 4, Len(content)), variables)
         ELSE <<Head(content)>> \o Substitute(Tail(content), variables)

RECURSIVE Blanked(_, _)
Blanked(content, variables) ==
    IF content = << >> THEN << >>
    ELSE IF Head(content) = "{{"
         THEN (IF content[2] \in Keys(variables)
               THEN <<Value(variables, content[2])>> ELSE << >>)
              \o Blanked(SubSeq(content, 4, Len(content)), variables)
         ELSE <<Head(content)>> \o Blanked(Tail(content), variables)

\* Mutant: the environment has the default Undefined, a missing name prints
\* as nothing.
RenderLenient(content, variables) ==
    IF ~ SyntaxOk(content)
    THEN [ error |-> "TemplateSyntaxError", out |-> << >> ]
    ELSE [ error |-> "none", out |-> Blanked(content, variables) ]

\* TemplateEngine.render of a content of text and {{ name }} markers, with
\* undefined=StrictUndefined; either error is raised as TemplateRenderError
Render(content, variables) ==
    IF ~ SyntaxOk(content)
    THEN [ error |-> "TemplateSyntaxError", out |-> << >> ]
    ELSE IF ~ (Interpolated(content) \subseteq Keys(variables))
         THEN [ error |-> "UndefinedError", out |-> << >> ]
         ELSE [ error |-> "none", out |-> Substitute(content, variables) ]

-----------------------------------------------------------------------------
(* Slugs *)

LowerCase(w) ==
    CASE w = "A" -> "a" [] w = "B" -> "b" [] w = "My" -> "my"
      [] w = "Test" -> "test" [] w = "Prompt" -> "prompt" [] OTHER -> w

IsAlnum(t) == t \notin {" ", "!", "-"}

\* Mutant: the runs keep their case.
RECURSIVE KeepCase(_)
KeepCase(title) ==
    IF title = <<>> THEN <<>>
    ELSE IF IsAlnum(Head(title)) THEN <<Head(title)>> \o KeepCase(Tail(title))
         ELSE KeepCase(Tail(title))

\* slugify(title): the lower-cased alphanumeric runs, joined by hyphens
RECURSIVE Slugify(_)
Slugify(title) ==
    IF title = <<>> THEN <<>>
    ELSE LET rest == Slugify(Tail(title))
         IN  IF IsAlnum(Head(title)) THEN <<LowerCase(Head(title))>> \o rest ELSE rest

\* data.slug or slugify(data.title)
Candidate(data) == IF data.slug # NULL THEN data.slug ELSE Slugify(data.title)

\* f"{base_slug}-{counter}"
Suffixed(base_slug, counter) == Append(base_slug, ToStr(counter))

\* The while loop of create: the first counter whose slug is not in `taken`.
RECURSIVE Probe(_, _, _)
Probe(taken, base_slug, counter) ==
    IF Suffixed(base_slug, counter) \in taken
    THEN Probe(taken, base_slug, counter + 1)
    ELSE Suffixed(base_slug, counter)

\* Mutant: the counter starts at 2.
ResolveSlugFromTwo(taken, slug) ==
    IF slug \in taken THEN Probe(taken, slug, 2) ELSE slug

\* The slug create persists when the slugs in `taken` exist.
ResolveSlug(taken, slug) ==
    IF slug \in taken THEN Probe(taken, slug, 1) ELSE slug

-----------------------------------------------------------------------------
(* Rows and queries *)

NOW == <<"now">>

\* Prompt(slug=slug, title=data.title, ...): version, usage_count and
\* last_used_at take the column defaults.
NewPrompt(id, slug, data) ==
    [ id |-> id, slug |-> slug, title |-> data.title, content |-> data.content,
      is_template |-> data.is_template, template_vars |-> data.template_vars,
      usage_count |-> 0, last_used_at |-> NULL,
      success_notes |-> data.success_notes, failure_notes |-> data.failure_notes,
      version |-> 1 ]

\* PromptVersion(prompt_id=.., version=.., content=.., change_note=..)
NewVersion(prompt_id, version, content, change_note) ==
    [ prompt_id |-> prompt_id, version |-> version, content |-> content,
      change_note |-> change_note ]

InitialNote == <<"Initial version">>

\* f"Restored from version {version}"
RestoredNote(version) == <<"Restored from version", ToStr(version)>>

Slugs(table) == { p.slug : p \in table }

\* select(Prompt).where(Prompt.slug == slug): the rows found
GetBySlug(table, slug) == { p \in table : p.slug = slug }

TheRow(found) == CHOOSE p \in found : TRUE

\* nullable=False columns that the modelled inputs can leave NULL
NotNullOk(p) == p.content # NULL /\ p.title # NULL

RECURSIVE InsertDesc(_, _)
InsertDesc(r, s) ==
    IF s = <<>> THEN <<r>>
    ELSE IF r.version > Head(s).version THEN <<r>> \o s
    ELSE <<Head(s)>> \o InsertDesc(r, Tail(s))

\* .order_by(PromptVersion.version.desc())
RECURSIVE OrderByVersionDesc(_)
OrderByVersionDesc(rows) ==
    IF rows = <<>> THEN <<>>
    ELSE InsertDesc(Head(rows), OrderByVersionDesc(Tail(rows)))

\* .where(PromptVersion.prompt_id == prompt.id)
RowsOf(rows, id) == SelectSeq(rows, LAMBDA r : r.prompt_id = id)

\* PromptRepository.get_versions
GetVersions(table, rows, slug) ==
    LET found == GetBySlug(table, slug)
    IN  IF found = {} THEN <<>>
        ELSE OrderByVersionDesc(RowsOf(rows, TheRow(found).id))

\* Mutant: the version filter is missing.
GetVersionAnyVersion(table, rows, slug, version) ==
    LET found == GetBySlug(table, slug)
    IN  IF found = {} \/ version = 0 THEN <<>>
        ELSE SubSeq(RowsOf(rows, TheRow(found).id), 1, 1)

\* PromptRepository.get_version: the rows found (scalar_one_or_none)
GetVersion(table, rows, slug, version) ==
    LET found == GetBySlug(table, slug)
    IN  IF found = {} THEN <<>>
        ELSE SelectSeq(RowsOf(rows, TheRow(found).id), LAMBDA r : r.version = version)

\* Mutant: the DELETE of the rows has no WHERE clause.
DeleteEveryRow(rows, id) == << >>

\* Mutant: the rows of the deleted prompt stay.
DeleteNoCascade(rows, id) == rows

\* session.delete(prompt) with cascade="all, delete-orphan"
DeleteCascade(rows, id) == SelectSeq(rows, LAMBDA r : r.prompt_id # id)

-----------------------------------------------------------------------------
(* Requests and results *)

RetPrompt(p) == [ kind |-> "prompt", id |-> p.id ]
RetNone == [ kind |-> "None", id |-> 0 ]
RetBool(b) == [ kind |-> IF b THEN "True" ELSE "False", id |-> 0 ]
\* Mutant: the error is caught and reported as not found.
RetSwallowed == RetNone
RetIntegrityError == [ kind |-> "IntegrityError", id |-> 0 ]
RetRendered(p) == [ kind |-> "rendered", id |-> p.id ]
RetTemplateRenderError == [ kind |-> "TemplateRenderError", id |-> 0 ]

\* a PromptVersion returned, named by its version number
RetVersion(r) == [ kind |-> "version", id |-> r.version ]
\* a list returned, with the number of its rows
RetList(rows) == [ kind |-> "list", id |-> Len(rows) ]

\* Mutant: the column is not declared unique.
UniqueNotEnforced(table, slug) == FALSE

\* slug: unique=True, as the INSERT of a prompt row meets it
UniqueViolation(table, slug) == slug \in Slugs(table)

-----------------------------------------------------------------------------
(* PromptRepository.update, the computation *)

\* Mutant: any content key counts as a change, equal or not.
ContentChangedIfGiven(prompt, data) ==
    "content" \in UpdateKeys(data)

\* "content" in update_data and update_data["content"] != prompt.content
ContentChanged(prompt, data) ==
    "content" \in UpdateKeys(data) /\ data.content # prompt.content

\* Mutant: the content of the request is not set on the prompt.
SetAttrsNoContent(prompt, data) ==
    [ prompt EXCEPT
        !.title = IF "title" \in UpdateKeys(data) THEN data.title ELSE @,
        !.is_template = IF "is_template" \in UpdateKeys(data) THEN data.is_template ELSE @,
        !.template_vars = IF "template_vars" \in UpdateKeys(data) THEN data.template_vars ELSE @,
        !.success_notes = IF "success_notes" \in UpdateKeys(data) THEN data.success_notes ELSE @,
        !.failure_notes = IF "failure_notes" \in UpdateKeys(data) THEN data.failure_notes ELSE @ ]

\* for field, value in update_data.items(): setattr(prompt, field, value)
SetAttrs(prompt, data) ==
    [ prompt EXCEPT
        !.title = IF "title" \in UpdateKeys(data) THEN data.title ELSE @,
        !.content = IF "content" \in UpdateKeys(data) THEN data.content ELSE @,
        !.is_template = IF "is_template" \in UpdateKeys(data) THEN data.is_template ELSE @,
        !.template_vars = IF "template_vars" \in UpdateKeys(data) THEN data.template_vars ELSE @,
        !.success_notes = IF "success_notes" \in UpdateKeys(data) THEN data.success_notes ELSE @,
        !.failure_notes = IF "failure_notes" \in UpdateKeys(data) THEN data.failure_notes ELSE @ ]

\* Mutant: version += 1 on every update.
UpdatedPromptBumpAlways(prompt, data) ==
    [ SetAttrs(prompt, data) EXCEPT !.version = prompt.version + 1 ]

\* The prompt object at commit: the fields set, and version += 1 if content changed.
UpdatedPrompt(prompt, data) ==
    IF ContentChanged(prompt, data)
    THEN [ SetAttrs(prompt, data) EXCEPT !.version = prompt.version + 1 ]
    ELSE SetAttrs(prompt, data)

\* Mutant: the row snapshots the content the prompt had before the update.
UpdateRowsOldContent(prompt, data) ==
    IF ContentChanged(prompt, data)
    THEN << NewVersion(prompt.id, UpdatedPrompt(prompt, data).version,
                       prompt.content, data.change_note) >>
    ELSE << >>

\* Mutant: the row takes the number the prompt had before the update.
UpdateRowsSameNumber(prompt, data) ==
    IF ContentChanged(prompt, data)
    THEN << NewVersion(prompt.id, prompt.version, data.content, data.change_note) >>
    ELSE << >>

\* The PromptVersion rows the update adds to the session.
UpdateRows(prompt, data) ==
    IF ContentChanged(prompt, data)
    THEN << NewVersion(prompt.id, UpdatedPrompt(prompt, data).version,
                       data.content, data.change_note) >>
    ELSE << >>

-----------------------------------------------------------------------------
(* PromptService: what it does to the request before the repository call *)

\* Mutant: the variables found are recorded as optional.
DescriptorsNotRequired(variables) ==
    { <<var, [ type |-> "string", required |-> FALSE ]>> : var \in variables }

\* {var: {"type": "string", "required": True} for var in variables}
Descriptors(variables) ==
    { <<var, [ type |-> "string", required |-> TRUE ]>> : var \in variables }

\* create_prompt: auto-detect template, extract template variables
DetectOnCreate(data) ==
    LET d1 == IF ~data.is_template
              THEN [ data EXCEPT !.is_template = IsTemplate(data.content),
                                 !.set = @ \cup {"is_template"} ]
              ELSE data
    IN  IF d1.is_template /\ d1.template_vars = {}
        THEN [ d1 EXCEPT !.template_vars = Descriptors(ExtractVariables(d1.content)),
                         !.set = @ \cup {"template_vars"} ]
        ELSE d1

\* update_prompt: the same when content is being updated
DetectOnUpdate(data) ==
    IF data.content # NULL
    THEN LET d1 == IF "is_template" \notin data.set
                   THEN [ data EXCEPT !.is_template = IsTemplate(data.content),
                                      !.set = @ \cup {"is_template"} ]
                   ELSE data
         IN  IF d1.is_template /\ "template_vars" \notin d1.set
             THEN [ d1 EXCEPT !.template_vars = Descriptors(ExtractVariables(d1.content)),
                              !.set = @ \cup {"template_vars"} ]
             ELSE d1
    ELSE data

Separator == "---"

\* f"{existing}\n\n---\n\n{note}" if existing else note
JoinNote(existing, note) ==
    IF existing # NULL THEN existing \o <<Separator>> \o note ELSE note

\* add_note: update_data
NoteUpdate(prompt, success_note, failure_note) ==
    [ EmptyData EXCEPT
        !.success_notes = IF success_note # NULL
                          THEN JoinNote(prompt.success_notes, success_note) ELSE @,
        !.failure_notes = IF failure_note # NULL
                          THEN JoinNote(prompt.failure_notes, failure_note) ELSE @,
        !.set = (IF success_note # NULL THEN {"success_notes"} ELSE {})
                \cup (IF failure_note # NULL THEN {"failure_notes"} ELSE {}) ]

\* Mutant: the content is not passed on.
RestoreUpdateNoteOnly(version_record, version) ==
    [ EmptyData EXCEPT !.change_note = RestoredNote(version),
                       !.set = {"change_note"} ]

\* restore_version: PromptUpdate(content=.., change_note=..)
RestoreUpdate(version_record, version) ==
    [ EmptyData EXCEPT !.content = version_record.content,
                       !.change_note = RestoredNote(version),
                       !.set = {"content", "change_note"} ]

-----------------------------------------------------------------------------
(* Inputs *)

CreateInputs ==
    { PromptCreate(s, t, c, FALSE) :
        s \in ExplicitSlugs, t \in Titles, c \in Contents }

\* PromptUpdate payloads: which fields are given, and their values
UpdateInputs ==
    { [ EmptyData EXCEPT !.title = <<"A", " ", "1">>, !.set = {"title"} ] }
    \cup { [ EmptyData EXCEPT !.content = c, !.change_note = n,
                              !.set = {"content"} \cup
                                      (IF n # NULL THEN {"change_note"} ELSE {}) ] :
             c \in Contents, n \in ChangeNotes }
    \cup { [ EmptyData EXCEPT !.content = NULL, !.set = {"content"} ] }
    \cup { [ EmptyData EXCEPT !.content = <<"Yo">>, !.title = <<"A">>,
                              !.set = {"content", "title"} ] }
    \cup { [ EmptyData EXCEPT !.success_notes = <<"s1">>, !.change_note = <<"n1">>,
                              !.set = {"success_notes", "change_note"} ] }

NoteInputs == { <<NULL, NULL>>, <<<<"s2">>, NULL>>, <<NULL, <<"s1">>>> }

\* The slugs requests address
RequestSlugs == { <<"a">>, <<"a", "1">> }

VersionNumbers == 0..MaxWrites

-----------------------------------------------------------------------------
(* The repository's transactions.  Each is the whole method, run to its     *)
(* commit with no other session in between.                                *)

\* session.commit() of a transaction that changes the tables
Commit(table, rows, id) ==
    /\ writes < MaxWrites
    /\ prompts' = table
    /\ versions' = rows
    /\ nextId' = id
    /\ writes' = writes + 1

\* Mutant: the initial version is not inserted.
RepoCreateNoVersion(data) ==
    LET slug == ResolveSlug(Slugs(prompts), Candidate(data))
        prompt == NewPrompt(nextId, slug, data)
    IN  /\ Commit(prompts \cup {prompt}, versions, nextId + 1)
        /\ ret' = RetPrompt(prompt)

\* PromptRepository.create
RepoCreate(data) ==
    LET slug == ResolveSlug(Slugs(prompts), Candidate(data))
        prompt == NewPrompt(nextId, slug, data)
    IN  /\ Commit(prompts \cup {prompt},
                  Append(versions, NewVersion(prompt.id, 1, data.content, InitialNote)),
                  nextId + 1)
        /\ ret' = RetPrompt(prompt)

\* Mutant: the prompt row is committed without the new version row.
RepoUpdatePromptOnly(slug, data) ==
    LET found == GetBySlug(prompts, slug)
    IN  IF found = {}
        THEN /\ UNCHANGED db
             /\ ret' = RetNone
        ELSE LET prompt == TheRow(found)
                 after == UpdatedPrompt(prompt, data)
             IN  IF NotNullOk(after)
                 THEN /\ Commit((prompts \ {prompt}) \cup {after}, versions, nextId)
                      /\ ret' = RetPrompt(after)
                 ELSE /\ UNCHANGED db
                      /\ ret' = RetIntegrityError

\* PromptRepository.update
RepoUpdate(slug, data) ==
    LET found == GetBySlug(prompts, slug)
    IN  IF found = {}
        THEN /\ UNCHANGED db
             /\ ret' = RetNone
        ELSE LET prompt == TheRow(found)
                 after == UpdatedPrompt(prompt, data)
             IN  IF NotNullOk(after)
                 THEN /\ Commit((prompts \ {prompt}) \cup {after},
                                versions \o UpdateRows(prompt, data), nextId)
                      /\ ret' = RetPrompt(after)
                 ELSE \* the commit raises, the session is rolled back
                      /\ UNCHANGED db
                      /\ ret' = RetIntegrityError

\* Mutant: a delete that finds nothing reports success.
RepoDeleteAlwaysTrue(slug) ==
    LET found == GetBySlug(prompts, slug)
    IN  IF found = {}
        THEN /\ UNCHANGED db
             /\ ret' = RetBool(TRUE)
        ELSE /\ Commit(prompts \ found, DeleteCascade(versions, TheRow(found).id), nextId)
             /\ ret' = RetBool(TRUE)

\* PromptRepository.delete
RepoDelete(slug) ==
    LET found == GetBySlug(prompts, slug)
    IN  IF found = {}
        THEN /\ UNCHANGED db
             /\ ret' = RetBool(FALSE)
        ELSE /\ Commit(prompts \ found, DeleteCascade(versions, TheRow(found).id), nextId)
             /\ ret' = RetBool(TRUE)

\* Mutant: the counter is raised by two.
RepoIncrementUsageTwice(slug) ==
    LET found == GetBySlug(prompts, slug)
    IN  IF found = {}
        THEN /\ UNCHANGED db
             /\ ret' = RetNone
        ELSE LET prompt == TheRow(found)
                 after == [ prompt EXCEPT !.usage_count = @ + 2,
                                          !.last_used_at = NOW ]
             IN  /\ Commit((prompts \ {prompt}) \cup {after}, versions, nextId)
                 /\ ret' = RetPrompt(after)

\* PromptRepository.increment_usage
RepoIncrementUsage(slug) ==
    LET found == GetBySlug(prompts, slug)
    IN  IF found = {}
        THEN /\ UNCHANGED db
             /\ ret' = RetNone
        ELSE LET prompt == TheRow(found)
                 after == [ prompt EXCEPT !.usage_count = @ + 1,
                                          !.last_used_at = NOW ]
             IN  /\ Commit((prompts \ {prompt}) \cup {after}, versions, nextId)
                 /\ ret' = RetPrompt(after)

-----------------------------------------------------------------------------
(* Operations *)

create(data) ==
    /\ call' = "create"
    /\ UNCHANGED <<sess, engine>>
    /\ RepoCreate(data)

create_prompt(data) ==
    /\ call' = "create_prompt"
    /\ UNCHANGED <<sess, engine>>
    /\ RepoCreate(DetectOnCreate(data))

update(slug, data) ==
    /\ call' = "update"
    /\ UNCHANGED <<sess, engine>>
    /\ RepoUpdate(slug, data)

update_prompt(slug, data) ==
    /\ call' = "update_prompt"
    /\ UNCHANGED <<sess, engine>>
    /\ RepoUpdate(slug, DetectOnUpdate(data))

delete(slug) ==
    /\ call' = "delete"
    /\ UNCHANGED <<sess, engine>>
    /\ RepoDelete(slug)

\* get_prompt(slug, increment_usage=True)
increment_usage(slug) ==
    /\ call' = "increment_usage"
    /\ UNCHANGED <<sess, engine>>
    /\ RepoIncrementUsage(slug)

restore_version(slug, version) ==
    /\ call' = "restore_version"
    /\ UNCHANGED <<sess, engine>>
    /\ LET found == GetVersion(prompts, versions, slug, version)
       IN  IF found = <<>>
           THEN /\ UNCHANGED db
                /\ ret' = RetNone
           ELSE RepoUpdate(slug, RestoreUpdate(found[1], version))

add_note(slug, success_note, failure_note) ==
    /\ call' = "add_note"
    /\ UNCHANGED <<sess, engine>>
    /\ LET found == GetBySlug(prompts, slug)
       IN  IF found = {}
           THEN /\ UNCHANGED db
                /\ ret' = RetNone
           ELSE LET prompt == TheRow(found)
                    data == NoteUpdate(prompt, success_note, failure_note)
                IN  IF data.set # {}
                    THEN RepoUpdate(slug, data)
                    ELSE /\ UNCHANGED db
                         /\ ret' = RetPrompt(prompt)

\* render_prompt: get_prompt(slug, increment_usage=True), then render
render_prompt(slug, variables) ==
    /\ call' = "render_prompt"
    /\ UNCHANGED <<sess, engine>>
    /\ LET found == GetBySlug(prompts, slug)
       IN  IF found = {}
           THEN /\ UNCHANGED db
                /\ ret' = RetNone
           ELSE LET prompt == TheRow(found)
                    after == [ prompt EXCEPT !.usage_count = @ + 1,
                                             !.last_used_at = NOW ]
                IN  /\ Commit((prompts \ {prompt}) \cup {after}, versions, nextId)
                    /\ ret' = IF /\ SyntaxOk(prompt.content)
                                 /\ VarPattern(prompt.content) \subseteq variables
                              THEN RetRendered(after)
                              ELSE RetTemplateRenderError

-----------------------------------------------------------------------------
(* Requests handled concurrently.  Each request has a session of its own   *)
(* (get_session); a SELECT reads what is committed, and what a session has *)
(* added or changed reaches the tables at its flush and commit.            *)

Sessions == {"s1", "s2"}

Idle ==
    [ pc |-> "idle", op |-> "none", data |-> EmptyData, slug |-> NULL,
      base_slug |-> NULL, counter |-> 0, obj |-> {}, ret |-> RetNone ]

ConcCreateInputs == { PromptCreate(NULL, <<"A">>, c, FALSE) : c \in Contents }

ConcUpdateInputs ==
    { [ EmptyData EXCEPT !.content = c, !.set = {"content"} ] : c \in Contents }

ConcSlugs == { <<"a">> }

Free(s) == sess[s].pc \in {"idle", "done"}

\* session.commit() of one of the concurrent sessions
ConcCommit(table, rows) ==
    /\ writes < MaxConcWrites
    /\ prompts' = table
    /\ versions' = rows
    /\ writes' = writes + 1
    /\ UNCHANGED nextId

Finish(s, result) ==
    sess' = [ sess EXCEPT ![s].pc = "done", ![s].obj = {}, ![s].ret = result ]

\* create: slug = data.slug or slugify(data.title); base_slug = slug; counter = 1
BeginCreate(s, data) ==
    /\ Free(s)
    /\ sess' = [ sess EXCEPT ![s] =
                   [ Idle EXCEPT !.pc = "probe", !.op = "create", !.data = data,
                                 !.slug = Candidate(data),
                                 !.base_slug = Candidate(data),
                                 !.counter = 1 ] ]
    /\ UNCHANGED <<db, call, ret, engine>>

\* Mutant: the counter is raised by two in each round.
CreateProbeByTwo(s) ==
    /\ sess[s].pc = "probe"
    /\ IF GetBySlug(prompts, sess[s].slug) # {}
       THEN sess' = [ sess EXCEPT
                        ![s].slug = Suffixed(sess[s].base_slug, sess[s].counter),
                        ![s].counter = @ + 2 ]
       ELSE sess' = [ sess EXCEPT ![s].pc = "flush" ]
    /\ UNCHANGED <<db, call, ret, engine>>

\* create: one test of `while await self.get_by_slug(slug)`, and the loop body
CreateProbe(s) ==
    /\ sess[s].pc = "probe"
    /\ IF GetBySlug(prompts, sess[s].slug) # {}
       THEN sess' = [ sess EXCEPT
                        ![s].slug = Suffixed(sess[s].base_slug, sess[s].counter),
                        ![s].counter = @ + 1 ]
       ELSE sess' = [ sess EXCEPT ![s].pc = "flush" ]
    /\ UNCHANGED <<db, call, ret, engine>>

\* create: session.add(prompt); await self.session.flush().  The INSERT waits
\* while another transaction holds an uncommitted row with the same slug.
CreateFlush(s) ==
    /\ sess[s].pc = "flush"
    /\ \A t \in Sessions \ {s} :
          ~ ( sess[t].pc = "commit" /\ sess[t].op = "create"
              /\ sess[t].slug = sess[s].slug )
    /\ IF UniqueViolation(prompts, sess[s].slug)
       THEN /\ Finish(s, RetIntegrityError)
            /\ UNCHANGED nextId
       ELSE /\ sess' = [ sess EXCEPT
                           ![s].pc = "commit",
                           ![s].obj = { NewPrompt(nextId, sess[s].slug, sess[s].data) } ]
            /\ nextId' = nextId + 1
    /\ UNCHANGED <<prompts, versions, writes, call, ret, engine>>

\* create: session.add(version); await self.session.commit()
CreateCommit(s) ==
    /\ sess[s].pc = "commit"
    /\ sess[s].op = "create"
    /\ LET prompt == TheRow(sess[s].obj)
       IN  /\ ConcCommit(prompts \cup {prompt},
                         Append(versions,
                                NewVersion(prompt.id, 1, sess[s].data.content,
                                           InitialNote)))
           /\ Finish(s, RetPrompt(prompt))
    /\ UNCHANGED <<call, ret, engine>>

BeginUpdate(s, slug, data) ==
    /\ Free(s)
    /\ sess' = [ sess EXCEPT ![s] =
                   [ Idle EXCEPT !.pc = "load", !.op = "update", !.data = data,
                                 !.slug = slug ] ]
    /\ UNCHANGED <<db, call, ret, engine>>

\* update: prompt = await self.get_by_slug(slug); if not prompt: return None
UpdateLoad(s) ==
    /\ sess[s].pc = "load"
    /\ sess[s].op = "update"
    /\ LET found == GetBySlug(prompts, sess[s].slug)
       IN  IF found = {}
           THEN Finish(s, RetNone)
           ELSE sess' = [ sess EXCEPT ![s].pc = "commit", ![s].obj = found ]
    /\ UNCHANGED <<db, call, ret, engine>>

\* The UPDATE of the flush: the columns whose value differs from the one
\* loaded are written to the row as it is stored now (WHERE id = ...).
Flushed(stored, loaded, after) ==
    [ stored EXCEPT
        !.title = IF after.title # loaded.title THEN after.title ELSE @,
        !.content = IF after.content # loaded.content THEN after.content ELSE @,
        !.is_template = IF after.is_template # loaded.is_template
                        THEN after.is_template ELSE @,
        !.template_vars = IF after.template_vars # loaded.template_vars
                          THEN after.template_vars ELSE @,
        !.success_notes = IF after.success_notes # loaded.success_notes
                          THEN after.success_notes ELSE @,
        !.failure_notes = IF after.failure_notes # loaded.failure_notes
                          THEN after.failure_notes ELSE @,
        !.version = IF after.version # loaded.version THEN after.version ELSE @ ]

\* update: the comparison with the prompt loaded, setattr, version += 1, the
\* new PromptVersion, commit.  No request of this specification deletes, so
\* the row loaded is still stored.
UpdateCommit(s) ==
    /\ sess[s].pc = "commit"
    /\ sess[s].op = "update"
    /\ LET loaded == TheRow(sess[s].obj)
           after == UpdatedPrompt(loaded, sess[s].data)
           stored == CHOOSE p \in prompts : p.id = loaded.id
       IN  /\ ConcCommit((prompts \ {stored}) \cup {Flushed(stored, loaded, after)},
                         versions \o UpdateRows(loaded, sess[s].data))
           /\ Finish(s, RetPrompt(after))
    /\ UNCHANGED <<call, ret, engine>>

BeginIncrement(s, slug) ==
    /\ Free(s)
    /\ sess' = [ sess EXCEPT ![s] =
                   [ Idle EXCEPT !.pc = "load", !.op = "increment", !.slug = slug ] ]
    /\ UNCHANGED <<db, call, ret, engine>>

\* increment_usage: prompt = await self.get_by_slug(slug); if not prompt: return None
IncrementLoad(s) ==
    /\ sess[s].pc = "load"
    /\ sess[s].op = "increment"
    /\ LET found == GetBySlug(prompts, sess[s].slug)
       IN  IF found = {}
           THEN Finish(s, RetNone)
           ELSE sess' = [ sess EXCEPT ![s].pc = "commit", ![s].obj = found ]
    /\ UNCHANGED <<db, call, ret, engine>>

\* increment_usage: prompt.usage_count += 1 on the object loaded; the UPDATE
\* writes that value
Counted(stored, loaded) ==
    [ stored EXCEPT !.usage_count = loaded.usage_count + 1, !.last_used_at = NOW ]

\* increment_usage: usage_count += 1; last_used_at = now; commit
IncrementCommit(s) ==
    /\ sess[s].pc = "commit"
    /\ sess[s].op = "increment"
    /\ LET loaded == TheRow(sess[s].obj)
           stored == CHOOSE p \in prompts : p.id = loaded.id
       IN  /\ ConcCommit((prompts \ {stored}) \cup {Counted(stored, loaded)}, versions)
           /\ Finish(s, RetPrompt(loaded))
    /\ UNCHANGED <<call, ret, engine>>

ConcNext ==
    \/ \E s \in Sessions, data \in ConcCreateInputs : BeginCreate(s, data)
    \/ \E s \in Sessions : CreateProbe(s)
    \/ \E s \in Sessions : CreateFlush(s)
    \/ \E s \in Sessions : CreateCommit(s)
    \/ \E s \in Sessions, slug \in ConcSlugs, data \in ConcUpdateInputs :
          BeginUpdate(s, slug, data)
    \/ \E s \in Sessions : UpdateLoad(s)
    \/ \E s \in Sessions : UpdateCommit(s)
    \/ \E s \in Sessions, slug \in ConcSlugs : BeginIncrement(s, slug)
    \/ \E s \in Sessions : IncrementLoad(s)
    \/ \E s \in Sessions : IncrementCommit(s)

-----------------------------------------------------------------------------
(* Requests handled one after the other *)

\* a TemplateEngine that has been given `content` and not called yet
NotCalled(content) ==
    [ op |-> "none", content |-> content, variables |-> {}, truth |-> FALSE,
      names |-> {}, error |-> "none", out |-> << >> ]

EmptyStore ==
    /\ prompts = {}
    /\ versions = <<>>
    /\ nextId = 1
    /\ writes = 0
    /\ call = "init"
    /\ ret = RetNone
    /\ sess = [ s \in Sessions |-> Idle ]

Init ==
    /\ EmptyStore
    /\ engine = NotCalled(NULL)

Next ==
    \/ \E data \in CreateInputs : create(data)
    \/ \E data \in CreateInputs : create_prompt(data)
    \/ \E slug \in RequestSlugs, data \in UpdateInputs : update(slug, data)
    \/ \E slug \in RequestSlugs, data \in UpdateInputs : update_prompt(slug, data)
    \/ \E slug \in RequestSlugs : delete(slug)
    \/ \E slug \in RequestSlugs : increment_usage(slug)
    \/ \E slug \in RequestSlugs, version \in VersionNumbers : restore_version(slug, version)
    \/ \E slug \in RequestSlugs, n \in NoteInputs : add_note(slug, n[1], n[2])

Spec == Init /\ [][Next]_vars

-----------------------------------------------------------------------------
(* Reads among the writes, one request after the other *)

\* PromptRepository.get_by_slug
get_by_slug(slug) ==
    LET found == GetBySlug(prompts, slug)
    IN  /\ UNCHANGED db
        /\ ret' = IF found = {} THEN RetNone ELSE RetPrompt(TheRow(found))

\* PromptService.get_prompt
get_prompt(slug, increment) ==
    /\ call' = "get_prompt"
    /\ UNCHANGED <<sess, engine>>
    /\ IF increment THEN RepoIncrementUsage(slug) ELSE get_by_slug(slug)

get_version(slug, version) ==
    /\ call' = "get_version"
    /\ UNCHANGED <<sess, engine>>
    /\ UNCHANGED db
    /\ LET found == GetVersion(prompts, versions, slug, version)
       IN  ret' = IF found = << >> THEN RetNone ELSE RetVersion(found[1])

get_versions(slug) ==
    /\ call' = "get_versions"
    /\ UNCHANGED <<sess, engine>>
    /\ UNCHANGED db
    /\ ret' = RetList(GetVersions(prompts, versions, slug))

ReadCreateInputs ==
    { PromptCreate(NULL, <<"A">>, c, FALSE) : c \in Contents }

ReadUpdateInputs ==
    { [ EmptyData EXCEPT !.title = <<"A", " ", "1">>, !.set = {"title"} ],
      [ EmptyData EXCEPT !.content = <<"Yo">>, !.change_note = <<"n1">>,
                         !.set = {"content", "change_note"} ] }

ReadNext ==
    \/ \E data \in ReadCreateInputs : create(data)
    \/ \E slug \in RequestSlugs, data \in ReadUpdateInputs : update(slug, data)
    \/ \E slug \in RequestSlugs : delete(slug)
    \/ \E slug \in RequestSlugs, increment \in BOOLEAN : get_prompt(slug, increment)
    \/ \E slug \in RequestSlugs, version \in VersionNumbers : get_version(slug, version)
    \/ \E slug \in RequestSlugs : get_versions(slug)
    \/ \E slug \in RequestSlugs, version \in VersionNumbers : restore_version(slug, version)
    \/ \E slug \in RequestSlugs, n \in NoteInputs : add_note(slug, n[1], n[2])

ReadSpec == Init /\ [][ReadNext]_vars

-----------------------------------------------------------------------------
(* Requests with template markup, one after the other *)

TemplateContents == { <<"Hi">>, <<"{{", "x", "}}">>, <<"{{", "x">> }

\* how the caller gives is_template: not at all, false, true
Flags == { "unset", "false", "true" }

\* template_vars the caller gives: none, or one descriptor of their own
GivenVars == { {}, { <<"y", [ type |-> "int", required |-> FALSE ]>> } }

WithFlags(data, flag, given) ==
    [ data EXCEPT !.is_template = (flag = "true"),
                  !.template_vars = given,
                  !.set = @ \cup (IF flag # "unset" THEN {"is_template"} ELSE {})
                            \cup (IF given # {} THEN {"template_vars"} ELSE {}) ]

TemplateCreateInputs ==
    { WithFlags(PromptCreate(NULL, <<"A">>, c, FALSE), flag, given) :
        c \in TemplateContents, flag \in Flags, given \in GivenVars }

TemplateUpdateInputs ==
    { WithFlags([ EmptyData EXCEPT !.content = c, !.set = {"content"} ], flag, given) :
        c \in TemplateContents, flag \in Flags, given \in GivenVars }
    \cup { WithFlags([ EmptyData EXCEPT !.title = <<"A">>, !.set = {"title"} ],
                     flag, {}) : flag \in {"false", "true"} }

TemplateSlugs == { <<"a">> }

RenderVariables == { {}, {"x"} }

TemplateNext ==
    \/ \E data \in TemplateCreateInputs : create_prompt(data)
    \/ \E slug \in TemplateSlugs, data \in TemplateUpdateInputs : update_prompt(slug, data)
    \/ \E slug \in TemplateSlugs, variables \in RenderVariables :
          render_prompt(slug, variables)

TemplateSpec == Init /\ [][TemplateNext]_vars

-----------------------------------------------------------------------------
(* The service operations, the caller never giving is_template or          *)
(* template_vars                                                           *)

ServiceContents == { <<"Hi">>, <<"{{", "x", "}}">>, <<"{{", "y", "}}">> }

ServiceCreateInputs ==
    { PromptCreate(NULL, <<"A">>, c, FALSE) : c \in ServiceContents }

ServiceUpdateInputs ==
    { [ EmptyData EXCEPT !.content = c, !.set = {"content"} ] : c \in ServiceContents }

ServiceNext ==
    \/ \E data \in ServiceCreateInputs : create_prompt(data)
    \/ \E slug \in TemplateSlugs, data \in ServiceUpdateInputs : update_prompt(slug, data)
    \/ \E slug \in TemplateSlugs, version \in VersionNumbers :
          restore_version(slug, version)
    \/ \E slug \in TemplateSlugs, n \in NoteInputs : add_note(slug, n[1], n[2])

ServiceSpec == Init /\ [][ServiceNext]_vars

-----------------------------------------------------------------------------
(* The TemplateEngine alone: is_template and extract_variables applied to  *)
(* a content                                                               *)

MaxLen == 3     \* tokens in a content made of markers

MarkerTokens == {"{{", "}}", "{%", "%}", "x", LineBreak}

RECURSIVE SeqsUpTo(_, _)
SeqsUpTo(S, n) ==
    IF n = 0 THEN { << >> }
    ELSE LET shorter == SeqsUpTo(S, n - 1)
         IN  shorter \cup { Append(q, t) : q \in shorter, t \in S }

LoopContents ==
    { <<"{%", "for", v, "in", it, "%}">> \o body \o <<"{%", "endfor", "%}">> :
        v \in {"item", "x"}, it \in {"items", "x"},
        body \in { <<"{{", w, "}}">> : w \in {"item", "items", "x"} } \cup { <<"Hi">> } }

PlainContents ==
    { <<"Hello", "world">>, <<"{", "not", "a", "template", "}">>,
      <<"Hello", "{{", "name", "}}", "!">>,
      <<"{{", "name", "}}", "{{", "x", "}}">>,
      <<"{%", "if", "x", "%}", "yes", "{%", "endif", "%}">>,
      <<"{{", "x", "|", "upper", "}}">> }

EngineContents ==
    (SeqsUpTo(MarkerTokens, MaxLen) \ { << >> }) \cup LoopContents \cup PlainContents

is_template ==
    /\ engine' = [ engine EXCEPT !.op = "is_template",
                                 !.truth = IsTemplate(engine.content),
                                 !.names = {}, !.error = "none", !.out = << >> ]
    /\ UNCHANGED <<db, call, ret, sess>>

extract_variables ==
    /\ engine' = [ engine EXCEPT !.op = "extract_variables",
                                 !.truth = FALSE,
                                 !.names = ExtractVariables(engine.content),
                                 !.error = "none", !.out = << >> ]
    /\ UNCHANGED <<db, call, ret, sess>>

\* the mappings render is given
Mappings ==
    { {}, { <<"name", "World">> }, { <<"name", "World">>, <<"x", "1">> } }

\* the contents of text and {{ name }} markers
Renderable(content) ==
    \A i \in 1..Len(content) : content[i] \notin {"{%", "%}", "|", LineBreak}

render ==
    /\ Renderable(engine.content)
    /\ LET r == Render(engine.content, engine.variables)
       IN  engine' = [ engine EXCEPT !.op = "render", !.truth = FALSE, !.names = {},
                                     !.error = r.error, !.out = r.out ]
    /\ UNCHANGED <<db, call, ret, sess>>

EngineInit ==
    /\ EmptyStore
    /\ engine \in { [ NotCalled(content) EXCEPT !.variables = variables ] :
                      content \in EngineContents, variables \in Mappings }

EngineNext == is_template \/ extract_variables \/ render

EngineSpec == EngineInit /\ [][EngineNext]_vars

-----------------------------------------------------------------------------
(* Creates with titles of letters, digits, blanks and punctuation *)

SlugTitles ==
    { <<"A">>, <<"A", "!">>, <<"A", " ", "1">>, <<"1", " ", "A">>, <<"!">>,
      <<"My", " ", "Test", " ", "Prompt">> }

SlugCreateInputs ==
    { PromptCreate(slug, title, <<"Hi">>, FALSE) :
        slug \in { NULL, <<"b">> }, title \in SlugTitles }

SlugNext == \E data \in SlugCreateInputs : create(data)

SlugSpec == Init /\ [][SlugNext]_vars

ConcSpec == Init /\ [][ConcNext]_vars

-----------------------------------------------------------------------------
(* The slug loop of one create, over stores that hold some of the slugs it  *)
(* can meet (creates and deletes leave any such subset).                    *)

StoredSlugs == << <<"a">>, <<"a", "1">>, <<"a", "2">> >>

StoredRow(i) ==
    NewPrompt(i, StoredSlugs[i], PromptCreate(StoredSlugs[i], <<"A">>, <<"Hi">>, FALSE))

ProbeSessions == {"s1"}

ProbeCreateInputs ==
    { PromptCreate(slug, <<"A">>, <<"Hi">>, FALSE) : slug \in { NULL, <<"a", "1">> } }

ProbeInit ==
    /\ \E T \in SUBSET (1..Len(StoredSlugs)) :
          /\ prompts = { StoredRow(i) : i \in T }
          /\ versions = SelectSeq([ i \in 1..Len(StoredSlugs) |->
                                     NewVersion(i, 1, <<"Hi">>, InitialNote) ],
                                  LAMBDA r : r.prompt_id \in T)
    /\ nextId = Len(StoredSlugs) + 1
    /\ writes = 0
    /\ call = "init"
    /\ ret = RetNone
    /\ sess = [ s \in Sessions |-> Idle ]
    /\ engine = NotCalled(NULL)

ProbeNext ==
    \/ \E s \in ProbeSessions, data \in ProbeCreateInputs : BeginCreate(s, data)
    \/ \E s \in ProbeSessions : CreateProbe(s)
    \/ \E s \in ProbeSessions : CreateFlush(s)
    \/ \E s \in ProbeSessions : CreateCommit(s)

\* the loop is straight-line code of one coroutine: each get_by_slug returns
\* and the next round is taken
ProbeSpec ==
    ProbeInit /\ [][ProbeNext]_vars /\ \A s \in ProbeSessions : WF_vars(CreateProbe(s))

-----------------------------------------------------------------------------
(* Properties *)

Ids(table) == { p.id : p \in table }

ById(table, id) == CHOOSE p \in table : p.id = id

RowVersions(rows, id) == { rows[i].version : i \in { i \in 1..Len(rows) : rows[i].prompt_id = id } }

Highest(S) == CHOOSE n \in S : \A m \in S : m <= n

IsUpdate(slug, data) == update(slug, data) \/ update_prompt(slug, data)

IsCreate(data) == create(data) \/ create_prompt(data)

Exists(slug) == GetBySlug(prompts, slug) # {}

Current(slug) == TheRow(GetBySlug(prompts, slug))

\* C1: in every state each prompt's version is the highest version among its
\* rows, and no step lowers the version of a prompt that exists before and after.
VersionIsHighest ==
    \A p \in prompts :
        /\ RowVersions(versions, p.id) # {}
        /\ p.version = Highest(RowVersions(versions, p.id))

VersionNeverDecreases ==
    \A id \in Ids(prompts) \cap Ids(prompts') :
        ById(prompts', id).version >= ById(prompts, id).version

C1_VersionHighestAndMonotone ==
    [][VersionIsHighest /\ VersionIsHighest' /\ VersionNeverDecreases]_vars

C1_Witness ==
    /\ call = "restore_version"
    /\ \E p \in prompts : p.version = 3 /\ p.usage_count = 0 /\ Cardinality(prompts) = 1

\* C2: an update of an existing prompt whose payload carries a content Y that
\* differs from the stored content X sets content to Y, version to v + 1, and
\* appends exactly one row (v + 1, Y, the request's change_note or NULL).
C2_Step(slug, data) ==
    ( /\ IsUpdate(slug, data)
      /\ Exists(slug)
      /\ "content" \in data.set
      /\ data.content \in Contents
      /\ data.content # Current(slug).content )
    => LET before == Current(slug)
       IN  /\ before.id \in Ids(prompts')
           /\ ById(prompts', before.id).content = data.content
           /\ ById(prompts', before.id).version = before.version + 1
           /\ versions' = Append(versions,
                                 [ prompt_id |-> before.id,
                                   version |-> before.version + 1,
                                   content |-> data.content,
                                   change_note |-> IF "change_note" \in data.set
                                                   THEN data.change_note ELSE NULL ])

C2_ContentChangeAppendsOneRow ==
    [][\A slug \in RequestSlugs, data \in UpdateInputs : C2_Step(slug, data)]_vars

C2_Witness ==
    /\ call \in {"update", "update_prompt"}
    /\ \E p \in prompts :
        /\ ret = RetPrompt(p)
        /\ p.version = 2
        /\ versions[Len(versions)] =
              [ prompt_id |-> p.id, version |-> 2, content |-> p.content,
                change_note |-> <<"n1">> ]
        /\ versions[1].prompt_id = p.id
        /\ versions[1].content # p.content

\* C3: an update without a content key, or whose content equals the stored
\* content, leaves version and the rows alone and applies the other fields given.
C3_Step(slug, data) ==
    ( /\ IsUpdate(slug, data)
      /\ Exists(slug)
      /\ \/ "content" \notin data.set
         \/ data.content = Current(slug).content )
    => LET before == Current(slug)
       IN  /\ before.id \in Ids(prompts')
           /\ ById(prompts', before.id).version = before.version
           /\ ById(prompts', before.id).content = before.content
           /\ versions' = versions
           /\ "title" \in data.set => ById(prompts', before.id).title = data.title
           /\ "success_notes" \in data.set =>
                  ById(prompts', before.id).success_notes = data.success_notes

C3_NoContentChangeNoVersion ==
    [][\A slug \in RequestSlugs, data \in UpdateInputs : C3_Step(slug, data)]_vars

C3_Witness ==
    /\ call \in {"update", "update_prompt"}
    /\ \E p \in prompts :
        /\ ret = RetPrompt(p)
        /\ p.version = 2
        /\ p.content = <<"Yo">>
        /\ p.title = <<"A">>
        /\ p.slug = <<"a", "1">>
        /\ Len(RowsOf(versions, p.id)) = 2
        /\ writes = 3

\* C4: a create adds, in the same step, one prompt with version 1 and
\* usage_count 0 and one row for it (version 1, the content, "Initial version");
\* in every state each prompt has exactly one version-1 row.
HasFirstRow ==
    \A p \in prompts :
        Len(SelectSeq(RowsOf(versions, p.id), LAMBDA r : r.version = 1)) = 1

C4_Step(data) ==
    IsCreate(data)
    => /\ Cardinality(prompts' \ prompts) = 1
       /\ prompts \subseteq prompts'
       /\ \A p \in prompts' \ prompts :
            /\ p.id \notin Ids(prompts)
            /\ p.version = 1
            /\ p.usage_count = 0
            /\ p.content = data.content
            /\ ret' = RetPrompt(p)
            /\ versions' = Append(versions,
                                  [ prompt_id |-> p.id, version |-> 1,
                                    content |-> data.content,
                                    change_note |-> <<"Initial version">> ])
            /\ Len(RowsOf(versions', p.id)) = 1

C4_CreateMakesVersionOne ==
    [][(\A data \in CreateInputs : C4_Step(data)) /\ HasFirstRow']_vars

C4_Witness ==
    /\ call \in {"create", "create_prompt"}
    /\ Cardinality(prompts) = 2
    /\ \E p \in prompts :
        /\ ret = RetPrompt(p)
        /\ p.id = 2
        /\ versions[Len(versions)] =
              [ prompt_id |-> 2, version |-> 1, content |-> p.content,
                change_note |-> <<"Initial version">> ]

\* C5: restoring version N, whose content differs from the current content,
\* makes version v + 1 with N's content and the note "Restored from version N",
\* sets the current content to it and leaves every earlier row as it was.
Restores(slug, version) ==
    /\ restore_version(slug, version)
    /\ Exists(slug)
    /\ \E i \in 1..Len(versions) :
          versions[i].prompt_id = Current(slug).id /\ versions[i].version = version

ContentOf(id, version) ==
    LET i == CHOOSE i \in 1..Len(versions) :
                versions[i].prompt_id = id /\ versions[i].version = version
    IN  versions[i].content

C5_Step(slug, version) ==
    ( /\ Restores(slug, version)
      /\ ContentOf(Current(slug).id, version) # Current(slug).content )
    => LET before == Current(slug)
           restored == ContentOf(before.id, version)
       IN  /\ before.id \in Ids(prompts')
           /\ ById(prompts', before.id).version = before.version + 1
           /\ ById(prompts', before.id).content = restored
           /\ versions' = Append(versions,
                                 [ prompt_id |-> before.id,
                                   version |-> before.version + 1,
                                   content |-> restored,
                                   change_note |->
                                       <<"Restored from version", ToStr(version)>> ])

C5_RestoreOfDifferentContent ==
    [][\A slug \in RequestSlugs, version \in VersionNumbers : C5_Step(slug, version)]_vars

C5_Witness ==
    /\ call = "restore_version"
    /\ \E p \in prompts :
        /\ ret = RetPrompt(p)
        /\ p.version = 3
        /\ Len(versions) = 3
        /\ versions[3] = [ prompt_id |-> p.id, version |-> 3, content |-> versions[1].content,
                           change_note |-> <<"Restored from version", "1">> ]
        /\ versions[2].content # versions[1].content
        /\ p.content = versions[1].content

\* C6 as claimed: every restore of an existing version appends a row, the
\* newest one, holding the restored content, also when that content is the
\* current content.
C6_Original ==
    [][\A slug \in RequestSlugs, version \in VersionNumbers :
          Restores(slug, version)
          => /\ Len(versions') = Len(versions) + 1
             /\ versions'[Len(versions')].prompt_id = Current(slug).id
             /\ versions'[Len(versions')].content = ContentOf(Current(slug).id, version)
      ]_vars

\* C6 as amended: a restore of an existing version appends a row exactly when
\* the restored content differs from the current content; when it is the same,
\* prompt and rows stay as they are.  Either way the prompt's content and its
\* row of highest version hold the restored content afterwards.
C6_Step(slug, version) ==
    Restores(slug, version)
    => LET before == Current(slug)
           restored == ContentOf(before.id, version)
           rowsAfter == RowsOf(versions', before.id)
       IN  /\ before.id \in Ids(prompts')
           /\ ById(prompts', before.id).content = restored
           /\ \E i \in 1..Len(rowsAfter) :
                 /\ rowsAfter[i].version = Highest(RowVersions(versions', before.id))
                 /\ rowsAfter[i].content = restored
           /\ IF restored # before.content
              THEN /\ Len(versions') = Len(versions) + 1
                   /\ versions'[Len(versions')].prompt_id = before.id
                   /\ versions'[Len(versions')].content = restored
                   /\ versions'[Len(versions')].version = before.version + 1
              ELSE /\ versions' = versions
                   /\ prompts' = prompts

C6_RestoreAppendsIffContentDiffers ==
    [][\A slug \in RequestSlugs, version \in VersionNumbers : C6_Step(slug, version)]_vars

C6_Witness ==
    /\ call = "restore_version"
    /\ writes = 3
    /\ \E p \in prompts :
        /\ ret = RetPrompt(p)
        /\ p.version = 2
        /\ Len(versions) = 2
        /\ versions[2].prompt_id = p.id
        /\ versions[2].change_note # <<"Restored from version", "2">>

\* C8: deleting a prompt removes it and all of its rows in one step, after
\* which its slug finds no prompt and no versions; a create (so also one that
\* reuses a deleted prompt's slug) starts at version 1 with one visible row.
C8_Delete(slug) ==
    ( delete(slug) /\ Exists(slug) )
    => LET before == Current(slug)
       IN  /\ prompts' = prompts \ {before}
           /\ \A i \in 1..Len(versions') : versions'[i].prompt_id # before.id
           /\ versions' = SelectSeq(versions, LAMBDA r : r.prompt_id # before.id)
           /\ GetBySlug(prompts', slug) = {}
           /\ GetVersions(prompts', versions', slug) = <<>>
           /\ ret' = RetBool(TRUE)

C8_Create(data) ==
    IsCreate(data)
    => \A p \in prompts' \ prompts :
          LET seen == GetVersions(prompts', versions', p.slug)
          IN  /\ p.version = 1
              /\ Len(seen) = 1
              /\ seen[1].prompt_id = p.id
              /\ seen[1].version = 1
              /\ seen[1].content = data.content

C8_DeleteCascades ==
    [][ /\ \A slug \in RequestSlugs : C8_Delete(slug)
        /\ \A data \in CreateInputs : C8_Create(data) ]_vars

C8_Witness ==
    /\ call \in {"create", "create_prompt"}
    /\ writes = 3
    /\ nextId = 3
    /\ Len(versions) = 1
    /\ \E p \in prompts :
        /\ prompts = {p}
        /\ p.id = 2
        /\ p.slug = <<"a">>
        /\ p.title = <<"A">>

\* C7: for every prompt that exists, get_versions returns exactly the rows of
\* that prompt, each once, in strictly descending order of version.
RowsOfPrompt(id) == { i \in 1..Len(versions) : versions[i].prompt_id = id }

C7_StrictlyDescending ==
    \A p \in prompts :
        LET seen == GetVersions(prompts, versions, p.slug)
        IN  /\ Len(seen) = Cardinality(RowsOfPrompt(p.id))
            /\ \A i \in 1..Len(seen) :
                  /\ seen[i].prompt_id = p.id
                  /\ \E j \in RowsOfPrompt(p.id) : versions[j] = seen[i]
            /\ \A j \in RowsOfPrompt(p.id) :
                  \E i \in 1..Len(seen) : seen[i] = versions[j]
            /\ \A i \in 1..(Len(seen) - 1) : seen[i].version > seen[i + 1].version

\* C9: with S the slugs that exist and C the candidate, create persists C if
\* C is not in S, and otherwise C-k for the least k >= 1 with C-k not in S;
\* the slug persisted is never in S.
Nth(slug, k) == IF k = 0 THEN slug ELSE Append(slug, Digits[k])

C9_Step(data) ==
    IsCreate(data)
    => LET S == Slugs(prompts)
           C == IF "slug" \in data.set THEN data.slug ELSE Slugify(data.title)
       IN  /\ Cardinality(prompts' \ prompts) = 1
           /\ \A p \in prompts' \ prompts :
                /\ p.slug \notin S
                /\ \A k \in 0..(MaxWrites + 1) :
                      ( /\ \A j \in 0..(k - 1) : Nth(C, j) \in S
                        /\ Nth(C, k) \notin S )
                      => p.slug = Nth(C, k)

C9_LowestFreeSuffix ==
    [][\A data \in CreateInputs : C9_Step(data)]_vars

C9_Witness ==
    /\ call \in {"create", "create_prompt"}
    /\ { p.slug : p \in prompts } = { <<"a">>, <<"a", "1">>, <<"a", "2">> }
    /\ \E p \in prompts : ret = RetPrompt(p) /\ p.slug = <<"a", "2">> /\ p.title = <<"A">>

\* C10: whatever the interleaving of concurrent creates, no two prompts that
\* exist have the same slug, and a create that has returned a prompt is the
\* only one that has returned a prompt with that slug.
C10_NoTwoPromptsShareSlug ==
    /\ \A p \in prompts : \A q \in prompts : p.slug = q.slug => p = q
    /\ \A s \in Sessions : \A t \in Sessions \ {s} :
          ( /\ sess[s].op = "create" /\ sess[s].ret.kind = "prompt"
            /\ sess[t].op = "create" /\ sess[t].ret.kind = "prompt" )
          => sess[s].slug # sess[t].slug

C10_Witness ==
    \E s \in Sessions : \E t \in Sessions \ {s} :
        /\ sess[s].op = "create" /\ sess[s].pc = "done"
        /\ sess[s].ret = RetIntegrityError
        /\ sess[t].op = "create" /\ sess[t].pc = "done"
        /\ sess[t].ret.kind = "prompt"
        /\ sess[t].slug = sess[s].slug
        /\ sess[s].base_slug = sess[t].base_slug
        /\ Cardinality(prompts) = 1

\* C11: whatever the interleaving of concurrent content-changing updates of a
\* prompt, no two rows of the prompt have the same version, and every update
\* that committed a row raised the prompt's version by one: the version of a
\* prompt is the number of its rows.
C11_NoSharedNextVersion ==
    \A p \in prompts :
        /\ \A i \in RowsOfPrompt(p.id) : \A j \in RowsOfPrompt(p.id) :
              versions[i].version = versions[j].version => i = j
        /\ p.version = Cardinality(RowsOfPrompt(p.id))

\* C12: a step removes rows only of prompts it deletes, and only delete
\* deletes a prompt; every other row stays, with its prompt reference,
\* version, content and change_note, at its place before any row added.
Removed == Ids(prompts) \ Ids(prompts')

Kept == SelectSeq(versions, LAMBDA r : r.prompt_id \notin Removed)

C12_Step ==
    /\ Removed # {} => call' = "delete"
    /\ Len(versions') >= Len(Kept)
    /\ SubSeq(versions', 1, Len(Kept)) = Kept
    /\ call' # "delete" => SubSeq(versions', 1, Len(versions)) = versions

C12_RowsNeverChange == [][C12_Step]_vars

C12_Witness ==
    /\ call = "delete"
    /\ ret = RetBool(TRUE)
    /\ writes = 3
    /\ Len(versions) = 1
    /\ \E p \in prompts : p.id = 2 /\ versions[1].prompt_id = 2 /\ versions[1].version = 1

\* C13: in every add_note or update_prompt step that changes success_notes or
\* failure_notes of a prompt, the value the field had is a prefix of the value
\* it has afterwards.
IsPrefix(old, new) == Len(old) <= Len(new) /\ SubSeq(new, 1, Len(old)) = old

C13_NotesAppendOnly ==
    [][ call' \in {"add_note", "update_prompt"}
        => \A p \in prompts :
              p.id \in Ids(prompts')
              => /\ IsPrefix(p.success_notes, ById(prompts', p.id).success_notes)
                 /\ IsPrefix(p.failure_notes, ById(prompts', p.id).failure_notes)
      ]_vars

\* C14: whatever the interleaving of concurrent increment_usage and update
\* requests, the usage_count of a prompt is never negative and is never lower
\* after a step than before it.
C14_UsageCountNeverDecreases ==
    [][ \A p \in prompts :
           /\ p.usage_count >= 0
           /\ p.id \in Ids(prompts')
              => ById(prompts', p.id).usage_count >= p.usage_count
      ]_vars

\* C15: for a prompt that exists and a version number it has no row for,
\* get_version gives a result different from the one it gives for a slug with
\* no prompt, and restore_version does not return what it returns for a slug
\* with no prompt (None).
AbsentSlug == <<"none">>

C15_VersionNotFoundDistinct ==
    [][ \A slug \in RequestSlugs, version \in VersionNumbers :
          ( /\ restore_version(slug, version)
            /\ Exists(slug)
            /\ version \notin RowVersions(versions, Current(slug).id) )
          => /\ GetVersion(prompts, versions, slug, version)
                  # GetVersion(prompts, versions, AbsentSlug, version)
             /\ ret' # RetNone
      ]_vars

\* C16: in every create_prompt and update_prompt step whose payload gives
\* is_template, the prompt stored has that value of is_template, whatever the
\* content; and template_vars given in the payload are stored as given.
AsGiven(data, p) ==
    /\ "is_template" \in data.set => p.is_template = data.is_template
    /\ "template_vars" \in data.set => p.template_vars = data.template_vars

C16_ExplicitFlagsPersisted ==
    [][ /\ \A data \in TemplateCreateInputs :
              create_prompt(data) => \A p \in prompts' \ prompts : AsGiven(data, p)
        /\ \A slug \in TemplateSlugs, data \in TemplateUpdateInputs :
              ( update_prompt(slug, data) /\ Exists(slug) /\ ret'.kind = "prompt" )
              => AsGiven(data, ById(prompts', Current(slug).id))
      ]_vars

\* C17: a create_prompt, or an update_prompt carrying content, whose payload
\* gives neither is_template nor template_vars stores is_template = true and
\* one descriptor {type: "string", required: true} for exactly each name of
\* extract_variables(content) when the content is a template, and
\* is_template = false when it is not.
Undirected(data) ==
    "content" \in data.set /\ "is_template" \notin data.set /\ "template_vars" \notin data.set

Detected(data, p) ==
    IF IsTemplate(data.content)
    THEN /\ p.is_template
         /\ { d[1] : d \in p.template_vars } = ExtractVariables(data.content)
         /\ \A d \in p.template_vars : d[2] = [ type |-> "string", required |-> TRUE ]
         /\ Cardinality(p.template_vars) = Cardinality(ExtractVariables(data.content))
    ELSE ~ p.is_template

C17_AutoDetection ==
    [][ /\ \A data \in TemplateCreateInputs :
              ( create_prompt(data) /\ Undirected(data) )
              => \A p \in prompts' \ prompts : Detected(data, p)
        /\ \A slug \in TemplateSlugs, data \in TemplateUpdateInputs :
              ( update_prompt(slug, data) /\ Undirected(data) /\ Exists(slug) )
              => /\ ret'.kind = "prompt"
                 /\ Detected(data, ById(prompts', Current(slug).id))
      ]_vars

C17_Witness ==
    /\ call = "update_prompt"
    /\ \E p \in prompts :
        /\ ret = RetPrompt(p)
        /\ p.version = 3
        /\ p.content = <<"{{", "x", "}}">>
        /\ p.is_template
        /\ p.template_vars = { <<"x", [ type |-> "string", required |-> TRUE ]>> }
        /\ versions[2].content = <<"Hi">>
        /\ versions[1].content = <<"{{", "x">>

\* C18: a render_prompt that fails with a template syntax error (the content
\* stored does not parse) leaves every prompt, usage_count and last_used_at
\* included, and every version row as they were.
C18_SyntaxFailureChangesNothing ==
    [][ \A slug \in TemplateSlugs, variables \in RenderVariables :
          ( /\ render_prompt(slug, variables)
            /\ Exists(slug)
            /\ ~ SyntaxOk(Current(slug).content) )
          => /\ ret' = RetTemplateRenderError
             /\ prompts' = prompts
             /\ versions' = versions
      ]_vars

\* C19: extract_variables gives the iterable of a for-loop and not its loop
\* variable: for "{% for item in items %}{{ item }}{% endfor %}" the result is
\* exactly items, and a name that occurs in a content only as the loop variable
\* of the for-block around it, and interpolated in the loop body, is not in
\* the result.
LoopExample ==
    <<"{%", "for", "item", "in", "items", "%}", "{{", "item", "}}", "{%", "endfor", "%}">>

OnlyLoopVariable(content, name) ==
    /\ content \in LoopContents
    /\ content[3] = name
    /\ content[5] # name

C19_LoopVariableNotExtracted ==
    engine.op = "extract_variables"
    => /\ engine.content = LoopExample => engine.names = {"items"}
       /\ \A name \in {"item", "x"} :
             OnlyLoopVariable(engine.content, name) => name \notin engine.names

\* C20: is_template(content) is true exactly when the content has a {{
\* followed later by a }} or a {% followed later by a %}, a line break
\* between them or not.
HasMarker(content) ==
    \E i \in 1..Len(content) : \E j \in (i + 1)..Len(content) :
        \/ content[i] = "{{" /\ content[j] = "}}"
        \/ content[i] = "{%" /\ content[j] = "%}"

C20_IsTemplateIffMarker ==
    engine.op = "is_template" => (engine.truth <=> HasMarker(engine.content))

\* C21: render of a content that interpolates a name the mapping does not
\* have fails (TemplateRenderError), it never prints a blank; render of a
\* content whose markers are all {{ name }} with name in the mapping returns
\* the content with each marker replaced by the value of its name, so
\* "Hello {{ name }}!" with name = World gives "Hello World!".
MarkerAt(content, i) ==
    /\ i + 2 <= Len(content)
    /\ content[i] = "{{"
    /\ content[i + 1] \notin {"{{", "}}"}
    /\ content[i + 2] = "}}"

AllMarkers(content) ==
    \A i \in 1..Len(content) :
        /\ content[i] = "{{" => MarkerAt(content, i)
        /\ content[i] = "}}" => i > 2 /\ MarkerAt(content, i - 2)

\* the place in the output of the token at place i of the content
OutputPlace(content, i) ==
    i - 2 * Cardinality({ k \in 1..(i - 1) : MarkerAt(content, k) })

C21_StrictUndefined ==
    engine.op = "render"
    => LET content == engine.content
           given == Keys(engine.variables)
       IN  /\ ( \E i \in 1..Len(content) :
                   MarkerAt(content, i) /\ content[i + 1] \notin given )
              => engine.error # "none"
           /\ ( /\ AllMarkers(content)
                /\ \A i \in 1..Len(content) :
                      MarkerAt(content, i) => content[i + 1] \in given )
              => /\ engine.error = "none"
                 /\ Len(engine.out) = OutputPlace(content, Len(content) + 1) - 1
                 /\ \A i \in 1..Len(content) :
                       /\ MarkerAt(content, i)
                          => \E kv \in engine.variables :
                                /\ kv[1] = content[i + 1]
                                /\ engine.out[OutputPlace(content, i)] = kv[2]
                       /\ content[i] \notin {"{{", "}}"}
                          /\ ~ (i > 1 /\ MarkerAt(content, i - 1))
                          => engine.out[OutputPlace(content, i)] = content[i]
           /\ ( content = <<"Hello", "{{", "name", "}}", "!">> /\ "name" \in given )
              => engine.out = <<"Hello", "World", "!">>

C21_Witness ==
    /\ engine.op = "render"
    /\ engine.content = <<"Hello", "{{", "name", "}}", "!">>
    /\ engine.variables = { <<"name", "World">> }
    /\ engine.error = "none"
    /\ engine.out = <<"Hello", "World", "!">>

\* C22: a create without an explicit slug stores a slug whose parts are the
\* lower-cased alphanumeric runs of the title, in order, followed at most by
\* a numeric suffix: lowercase alphanumerics and hyphens only, and
\* "My Test Prompt" gives "my-test-prompt".  A create with an explicit slug
\* that no prompt has stores that slug, whatever the title.
LowerAlnum == { "a", "1", "my", "test", "prompt" }

RunsOf(title) == SelectSeq(title, LAMBDA t : t \notin {" ", "!"})

C22_Step(data) ==
    create(data)
    => \A p \in prompts' \ prompts :
          /\ "slug" \notin data.set
             => LET runs == RunsOf(data.title)
                IN  /\ \A i \in 1..Len(p.slug) :
                          p.slug[i] \in LowerAlnum \cup { Digits[k] : k \in 1..9 }
                    /\ Len(p.slug) \in { Len(runs), Len(runs) + 1 }
                    /\ \A i \in 1..Len(runs) :
                          /\ p.slug[i] \in LowerAlnum
                          /\ runs[i] = "A" => p.slug[i] = "a"
                          /\ runs[i] = "1" => p.slug[i] = "1"
                    /\ Len(p.slug) = Len(runs) + 1 => runs \in Slugs(prompts)
                                                      \/ p.slug[Len(runs)] \in LowerAlnum
                    /\ ( data.title = <<"My", " ", "Test", " ", "Prompt">>
                         /\ Slugs(prompts) = {} )
                       => p.slug = <<"my", "test", "prompt">>
          /\ ( "slug" \in data.set /\ data.slug \notin Slugs(prompts) )
             => p.slug = data.slug

C22_SlugFromTitleOrVerbatim ==
    [][\A data \in SlugCreateInputs : C22_Step(data)]_vars

C22_Witness ==
    /\ call = "create"
    /\ \E p \in prompts : p.title = <<"A", "!">> /\ p.slug = <<"a", "1">>
    /\ \E p \in prompts : p.title = <<"!">> /\ p.slug = <<"b">>
    /\ \E p \in prompts : p.title = <<"A">> /\ p.slug = <<"a">>

-----------------------------------------------------------------------------
\* C23: get_prompt with increment_usage=True on an existing prompt raises its
\* usage_count by exactly 1 and sets last_used_at to a timestamp; with
\* increment_usage=False it returns the prompt and leaves both as they were.
\* Neither changes any other field of the prompt, any other prompt, or any
\* version row.
C23_Step(slug, increment) ==
    ( get_prompt(slug, increment) /\ Exists(slug) )
    => LET p == Current(slug)
       IN  /\ versions' = versions
           /\ IF increment
              THEN \E q \in prompts' :
                      /\ prompts' = (prompts \ {p}) \cup {q}
                      /\ q.usage_count = p.usage_count + 1
                      /\ q.last_used_at # NULL
                      /\ [ q EXCEPT !.usage_count = p.usage_count,
                                    !.last_used_at = p.last_used_at ] = p
                      /\ ret' = RetPrompt(q)
              ELSE /\ prompts' = prompts
                   /\ ret' = RetPrompt(p)

C23_GetPromptUsage ==
    [][ \A slug \in RequestSlugs, increment \in BOOLEAN :
          C23_Step(slug, increment) ]_vars

\* one prompt has been fetched with the increment and changed since, another
\* has just been fetched without it
C23_Witness ==
    /\ call = "get_prompt"
    /\ \E p \in prompts :
          /\ p.usage_count = 1
          /\ p.last_used_at = NOW
    /\ \E q \in prompts :
          /\ ret = RetPrompt(q)
          /\ q.usage_count = 0
          /\ q.last_used_at = NULL

-----------------------------------------------------------------------------
\* C24: when a create reaches its persist step after another creation has
\* committed the slug it had found free, the step ends in an error that is not
\* the not-found result, the prompt that holds the slug stays as it is, and
\* the create leaves no prompt row and no version row.
C24_Step(s) ==
    ( CreateFlush(s) /\ sess[s].slug \in Slugs(prompts) )
    => /\ sess'[s].pc = "done"
       /\ sess'[s].ret.kind = "IntegrityError"
       /\ sess'[s].ret # RetNone
       /\ sess'[s].obj = {}
       /\ prompts' = prompts
       /\ versions' = versions

C24_LostSlugRaceRejected ==
    [][ \A s \in Sessions : C24_Step(s) ]_vars

\* a create has ended in the error, and the slug it asked for is held by one
\* prompt with its one row
C24_Witness ==
    \E s \in Sessions :
        /\ sess[s].pc = "done"
        /\ sess[s].op = "create"
        /\ sess[s].ret = RetIntegrityError
        /\ \E p \in prompts :
              /\ GetBySlug(prompts, sess[s].slug) = {p}
              /\ Cardinality(RowsOfPrompt(p.id)) = 1
        /\ Len(versions) = Cardinality(prompts)

-----------------------------------------------------------------------------
\* C25: when requests are handled one after the other, the version numbers of
\* the rows of every existing prompt are exactly 1..version, each once.
C25_VersionsContiguous ==
    \A p \in prompts :
        /\ RowVersions(versions, p.id) = 1..p.version
        /\ Cardinality(RowsOfPrompt(p.id)) = p.version

\* a prompt at version 3 after an update and a restore
C25_Witness ==
    /\ call = "restore_version"
    /\ \E p \in prompts :
          /\ p.version = 3
          /\ RowVersions(versions, p.id) = {1, 2, 3}
          /\ Cardinality(RowsOfPrompt(p.id)) = 3

-----------------------------------------------------------------------------
\* C28: when requests are handled one after the other, the content of every
\* existing prompt is the content of its row numbered with its version.
C28_NewestRowMirrorsContent ==
    \A p \in prompts :
        \E i \in RowsOfPrompt(p.id) :
            /\ versions[i].version = p.version
            /\ versions[i].content = p.content

\* a prompt whose content was changed and then restored to that of version 1
C28_Witness ==
    /\ call = "restore_version"
    /\ \E p \in prompts :
          /\ p.version = 3
          /\ \E i, j, k \in RowsOfPrompt(p.id) :
                /\ versions[i].version = 1
                /\ versions[j].version = 2
                /\ versions[k].version = 3
                /\ versions[j].content # versions[i].content
                /\ versions[k].content = versions[i].content
                /\ p.content = versions[k].content

-----------------------------------------------------------------------------
\* C26: every version row references a prompt that exists, and every step
\* either leaves a prompt's version, content and rows as they were, or inserts
\* exactly one row and leaves the prompt with that row's version and content:
\* never the one without the other.
NoOrphans ==
    \A i \in 1..Len(versions) : versions[i].prompt_id \in Ids(prompts)

C26_Step ==
    \A id \in Ids(prompts) \cap Ids(prompts') :
        LET p == ById(prompts, id)
            q == ById(prompts', id)
            before == RowsOf(versions, id)
            after == RowsOf(versions', id)
        IN  IF after = before
            THEN q.version = p.version /\ q.content = p.content
            ELSE /\ Len(after) = Len(before) + 1
                 /\ SubSeq(after, 1, Len(before)) = before
                 /\ q.version = after[Len(after)].version
                 /\ q.content = after[Len(after)].content
                 /\ q.version > 1

C26_LiveAndDieTogether ==
    [][ C26_Step /\ NoOrphans' ]_vars

\* one of two prompts has been deleted; the other keeps its row
C26_Witness ==
    /\ call = "delete"
    /\ ret = RetBool(TRUE)
    /\ nextId = 3
    /\ Cardinality(prompts) = 1
    /\ Len(versions) = 1
    /\ NoOrphans

-----------------------------------------------------------------------------
\* C27: over any set S of existing slugs the slug loop of a create has made at
\* most |S| + 1 existence checks at any point, and a create that is in the
\* loop goes on to its persist step.
Checks(s) == IF sess[s].pc = "probe" THEN sess[s].counter - 1 ELSE sess[s].counter

InLoop(s) == sess[s].pc = "probe"

C27_SlugLoopTerminates ==
    /\ [](\A s \in ProbeSessions :
             sess[s].pc \in {"probe", "flush"}
             => Checks(s) <= Cardinality(Slugs(prompts)) + 1)
    /\ \A s \in ProbeSessions : InLoop(s) ~> (sess[s].pc = "flush")

\* the loop has ended after |S| + 1 checks with the first free suffix
C27_Witness ==
    \E s \in ProbeSessions :
        /\ sess[s].pc = "flush"
        /\ Cardinality(Slugs(prompts)) >= 3
        /\ Checks(s) = Cardinality(Slugs(prompts)) + 1
        /\ sess[s].slug \notin Slugs(prompts)

-----------------------------------------------------------------------------
\* C29: when prompts are created and changed only through create_prompt,
\* update_prompt, restore_version and add_note and the caller never gives
\* is_template or template_vars, every prompt's is_template is
\* is_template(content), and when it is true the names in template_vars are
\* extract_variables(content).
C29_TemplateFieldsFollowContent ==
    \A p \in prompts :
        /\ p.is_template = IsTemplate(p.content)
        /\ p.is_template => Keys(p.template_vars) = ExtractVariables(p.content)

-----------------------------------------------------------------------------
\* C30: a request addressed to a slug that no prompt has returns None (update,
\* get_prompt with and without the increment, get_version, restore_version,
\* add_note), False (delete) or the empty list (get_versions), and leaves the
\* prompts and the version rows as they were.
ReturnsNone(slug) ==
    \/ \E data \in ReadUpdateInputs : update(slug, data)
    \/ \E increment \in BOOLEAN : get_prompt(slug, increment)
    \/ \E version \in VersionNumbers : get_version(slug, version)
    \/ \E version \in VersionNumbers : restore_version(slug, version)
    \/ \E n \in NoteInputs : add_note(slug, n[1], n[2])

C30_Step(slug) ==
    ~ Exists(slug)
    => /\ ReturnsNone(slug) => ret' = RetNone
       /\ delete(slug) => ret' = RetBool(FALSE)
       /\ get_versions(slug) => ret' = RetList(<< >>)
       /\ ( ReturnsNone(slug) \/ delete(slug) \/ get_versions(slug) )
          => /\ prompts' = prompts
             /\ versions' = versions
             /\ nextId' = nextId

C30_NotFoundChangesNothing ==
    [][ \A slug \in RequestSlugs : C30_Step(slug) ]_vars

\* a delete of a slug that no prompt has, beside a prompt at version 2
C30_Witness ==
    /\ call = "delete"
    /\ ret = RetBool(FALSE)
    /\ \E p \in prompts :
          /\ prompts = {p}
          /\ p.version = 2
          /\ Len(versions) = 2

====
